---- MODULE Spec2Model ----
(***************************************************************************)
(* Model of lit-html's Lit 2 forward-compatibility layer:                  *)
(*   directive() / litNextDirective() / legacyPartToPart()  (directive.ts) *)
(*   AsyncDirective                                  (async-directive.ts)  *)
(*   directives / isDirective                      (directive-helpers.ts)  *)
(*                                                                         *)
(* User code (a directive class's constructor and update, a plain          *)
(* directive factory) runs between the steps of the library code; it may   *)
(* return, throw, start a nested render or call setValue on an             *)
(* AsyncDirective instance.  A render pass is therefore a stack frame      *)
(* that is suspended while user code runs.                                 *)
(***************************************************************************)
EXTENDS Naturals, Sequences, FiniteSets

\* ------------------------------------------------------------- bounds
MaxPasses == 2      \* render passes started (nested ones included)
MaxOps    == 4      \* render passes and AsyncDirective.setValue calls together
MaxFns    == 2      \* class-mode directive functions created
MaxPlain  == 2      \* invocations of the wrapped plain factory
MaxTranslate == 2   \* calls of the translator alone

\* ------------------------------------------------------------- domains
Sites     == {"s1", "s2"}
Factories == {"fA", "fB"}      \* two directive(Class) results
Props     == {"x", "y"}        \* arguments of one factory call
AsyncVals == {<<"a">>}         \* values user code hands to setValue
\* values a user's plain factory can return: two functions with the same
\* behaviour and an object that is not a function
\* (an object is <<kind, identity>>)
UserVals  == {<<"function", 1>>, <<"function", 2>>, <<"object", 3>>}
NodeStates == {"none", "connected", "detached"}
Undefined == <<>>
NoVal     == <<>>

\* the class of a legacy binding site is the set of Part classes that
\* `site instanceof C` holds for (the classes on its prototype chain);
\* ElementPart stands for a class the translator does not know
LegacyClasses ==
  {"NodePart", "EventPart", "BooleanAttributePart", "PropertyPart",
   "AttributePart", "ElementPart"}
Shapes == SUBSET LegacyClasses

\* the classes of the two binding sites the host hands to the core
SiteClassChoices ==
  { [s1 |-> {"NodePart"},                      s2 |-> {"AttributePart"}],
    [s1 |-> {"PropertyPart", "AttributePart"}, s2 |-> {"ElementPart"}] }

VARIABLES
  siteClass,   \* class of each legacy binding site (host-owned, fixed)
  directives,  \* the WeakMap `directives`: the set of tagged objects
  returned,    \* history: objects returned by a factory made by directive()
  fns,         \* class-mode directive functions created so far: [fac, props]
  cache,       \* partToInstance of each factory: site -> <<part, inst>>
  insts,       \* directive instances, by allocation order
  stack,       \* suspended render passes, innermost last
  trace,       \* history of calls made by and into the core
  npass,       \* render passes started
  nasync,      \* AsyncDirective.setValue calls made
  plainCalls   \* history of wrapped plain factory invocations

vars == <<siteClass, directives, returned, fns, cache, insts, stack,
          trace, npass, nasync, plainCalls>>

\* ------------------------------------------------------------- helpers
Ev(op, pass, fac, site, inst, val, info, first) ==
  [op |-> op, pass |-> pass, fac |-> fac, site |-> site, inst |-> inst,
   val |-> val, info |-> info, first |-> first]

\* the object identity of the i-th class-mode directive function: the
\* closure `(part: Part) => {...}` made by one call of the factory
FnObj(i) == <<"function", 10 + i>>

Typeof(o) == o[1]

\* directive-helpers.ts: isDirective
isDirectiveNoTypeof(dirs, o) == o \in dirs
isDirective(dirs, o) == Typeof(o) = "function" /\ o \in dirs

\* directive.ts: directives.set(d, true)
tagSkipped(dirs, d) == dirs
tag(dirs, d) == dirs \cup {d}

\* directive.ts: isDirectiveClass; both factories wrap a directive class,
\* fA's class extends AsyncDirective, fB's extends Directive
IsAsync(f) == f = "fA"

\* `part instanceof C` on a legacy binding site
InstanceOf(cls, C) == C \in cls

\* directive.ts: legacyPartToPart, on the class of the legacy site; the
\* result is the class of the modern Part, or "throw" for the Error
legacyPartToPartKindNoThrow(cls) ==
  IF InstanceOf(cls, "NodePart") THEN "ChildPart"
  ELSE IF InstanceOf(cls, "EventPart") THEN "EventPart"
  ELSE IF InstanceOf(cls, "BooleanAttributePart") THEN "BooleanAttributePart"
  ELSE "AttributePart"
legacyPartToPartKindEventFirst(cls) ==
  IF InstanceOf(cls, "EventPart") THEN "EventPart"
  ELSE IF InstanceOf(cls, "NodePart") THEN "ChildPart"
  ELSE IF InstanceOf(cls, "BooleanAttributePart") THEN "BooleanAttributePart"
  ELSE IF InstanceOf(cls, "PropertyPart") \/ InstanceOf(cls, "AttributePart")
       THEN "AttributePart"
  ELSE "throw"
legacyPartToPartKind(cls) ==
  IF InstanceOf(cls, "NodePart") THEN "ChildPart"
  ELSE IF InstanceOf(cls, "EventPart") THEN "EventPart"
  ELSE IF InstanceOf(cls, "BooleanAttributePart") THEN "BooleanAttributePart"
  ELSE IF InstanceOf(cls, "PropertyPart") \/ InstanceOf(cls, "AttributePart")
       THEN "AttributePart"
  ELSE "throw"

\* the modern Part: its kind and the legacy site it wraps (legacyPart)
legacyPartToPartFirstSite(s, cls) ==
  [kind |-> legacyPartToPartKind(cls), legacyPart |-> "s1"]
legacyPartToPart(s, cls) ==
  [kind |-> legacyPartToPartKind(cls), legacyPart |-> s]

\* Directive.update -> render(...props): the value a render of the model's
\* directive class computes from the arguments and the instance's own
\* state n, the number of update calls the instance has seen
Render(props, n) == <<props, n>>

\* the partToInstance of factory f: the WeakMap made by the call of
\* litNextDirective that made f, among the caches c of all factories
partToInstanceShared(c, f) == c["fA"]
partToInstance(c, f) == c[f]

\* partToInstance.get(part): keyed by the identity of the legacy site
CacheGetAnySite(c, s) ==
  IF c[s] # Undefined THEN c[s]
  ELSE IF \E t \in Sites : c[t] # Undefined
       THEN c[CHOOSE t \in Sites : c[t] # Undefined]
       ELSE Undefined
CacheGetNever(c, s) == Undefined
CacheGet(c, s) == c[s]

\* partToInstance.set(part, [modernPart, instance]) on the WeakMap that the
\* litNextDirective call of factory f made: c is the caches of all factories
CacheSetShared(c, f, s, e) == [g \in Factories |-> [c[g] EXCEPT ![s] = e]]
CacheSet(c, f, s, e) == [c EXCEPT ![f][s] = e]

\* part.setValue(v); part.commit() of a render pass, on the legacy site
WriteBackCommitFirst(pass, f, s, i, v) ==
  <<Ev("commit", pass, f, s, i, NoVal, "render", FALSE),
    Ev("setValue", pass, f, s, i, v, "render", FALSE)>>
WriteBackGated(pass, f, s, i, v) ==
  IF IsAsync(f) THEN <<>>
  ELSE <<Ev("setValue", pass, f, s, i, v, "render", FALSE),
         Ev("commit", pass, f, s, i, NoVal, "render", FALSE)>>
WriteBack(pass, f, s, i, v) ==
  <<Ev("setValue", pass, f, s, i, v, "render", FALSE),
    Ev("commit", pass, f, s, i, NoVal, "render", FALSE)>>

Top == stack[Len(stack)]
Pop(st) == SubSeq(st, 1, Len(st) - 1)

\* ------------------------------------------------------------- Init
Init ==
  /\ siteClass \in SiteClassChoices
  /\ directives = {}
  /\ returned = {}
  /\ fns = <<>>
  /\ cache = [f \in Factories |-> [s \in Sites |-> Undefined]]
  /\ insts = <<>>
  /\ stack = <<>>
  /\ trace = <<>>
  /\ npass = 0
  /\ nasync = 0
  /\ plainCalls = <<>>

\* ------------------------------------------------------------- actions

\* the body of the plain-mode wrapper `(...args) => {...}`, where d is
\* what factoryOrClass(...args) returns and hist the earlier invocations:
\* the calls it makes to the user's factory, the value it tags, the value
\* it returns
plainWrapperMemo(hist, args, d) ==
  IF \E k \in 1..Len(hist) : hist[k].args = args
  THEN LET k == CHOOSE j \in 1..Len(hist) : hist[j].args = args IN
         [userCalls |-> <<>>, tagged |-> hist[k].ret, ret |-> hist[k].ret]
  ELSE [userCalls |-> <<args>>, tagged |-> d, ret |-> d]
plainWrapper(hist, args, d) ==
  [userCalls |-> <<args>>, tagged |-> d, ret |-> d]

\* directive(f) in plain-function mode: the wrapper `(...args) => {...}`
\* called with args; the user's factory returns d
PlainCall(args, d) ==
  /\ Len(plainCalls) < MaxPlain
  /\ LET w == plainWrapper(plainCalls, args, d) IN
       /\ directives' = tag(directives, w.tagged)
       /\ returned' = returned \cup {w.ret}
       /\ plainCalls' = Append(plainCalls,
            [args |-> args, userCalls |-> w.userCalls, userRet |-> d,
             ret |-> w.ret])
  /\ UNCHANGED <<siteClass, fns, cache, insts, stack, trace, npass, nasync>>

\* calling the function litNextDirective returned: the inner factory makes
\* the closure over props, the plain-mode wrapper tags and returns it
CallFactory(f, props) ==
  /\ Len(fns) < MaxFns
  /\ LET d == FnObj(Len(fns) + 1) IN
       /\ fns' = Append(fns, [fac |-> f, props |-> props])
       /\ directives' = tag(directives, d)
       /\ returned' = returned \cup {d}
  /\ UNCHANGED <<siteClass, cache, insts, stack, trace, npass, nasync,
                 plainCalls>>

\* who may call into the core: the host between passes, or user code that
\* is running inside the constructor or update of the innermost pass
Depth == Len(stack)

\* the directive function d (made by factory f with props) called with the
\* legacy binding site s: directive.ts lines 169-173, up to the point where
\* user code takes over (the class constructor on a miss, update on a hit)
RenderBegin(d, s) ==
  /\ npass < MaxPasses
  /\ npass + nasync < MaxOps
  /\ LET f      == fns[d].fac
         props  == fns[d].props
         pass   == npass + 1
         cached == CacheGet(partToInstance(cache, f), s)
         begin  == Ev("render", pass, f, s, 0, <<props>>,
                      IF cached = Undefined THEN "miss" ELSE "hit", Depth = 0)
     IN
       /\ npass' = pass
       /\ IF cached = Undefined
          THEN LET modernPart == legacyPartToPart(s, siteClass[s]) IN
            IF modernPart.kind = "throw"
            THEN \* throw new Error(`Unknown part type`)
              /\ trace' = trace \o <<begin,
                     Ev("throw", pass, f, s, 0, NoVal, "Unknown part type", FALSE)>>
              /\ UNCHANGED <<insts, stack>>
            ELSE \* new directiveClass(modernPart): the constructor starts
              /\ LET i == Len(insts) + 1 IN
                   /\ insts' = Append(insts,
                        [fac |-> f, ddPart |-> modernPart.legacyPart,
                         renderedYet |-> FALSE, n |-> 0, status |-> "constructing"])
                   /\ stack' = Append(stack,
                        [pass |-> pass, fac |-> f, props |-> props, site |-> s,
                         pc |-> "ctor", part |-> modernPart, inst |-> i, n |-> 0])
                   /\ trace' = trace \o <<begin,
                        Ev("translate", pass, f, s, 0, <<modernPart.kind>>, "", FALSE)>>
          ELSE \* hit: instance.update(modernPart, props) starts
            LET i == cached[2] IN
              /\ insts' = [insts EXCEPT ![i].n = @ + 1]
              /\ stack' = Append(stack,
                   [pass |-> pass, fac |-> f, props |-> props, site |-> s,
                    pc |-> "update", part |-> cached[1], inst |-> i,
                    n |-> insts[i].n + 1])
              /\ trace' = trace \o <<begin,
                   Ev("update", pass, f, s, i, <<props>>, "", FALSE)>>
  /\ UNCHANGED <<siteClass, directives, returned, fns, cache, nasync,
                 plainCalls>>

\* the constructor returns: line 174 stores the pair, line 179 calls update
CtorReturn ==
  /\ Depth > 0
  /\ Top.pc = "ctor"
  /\ LET fr == Top
         i == fr.inst IN
       /\ cache' = CacheSet(cache, fr.fac, fr.site, <<fr.part, i>>)
       /\ insts' = [insts EXCEPT ![i].status = "live", ![i].n = @ + 1]
       /\ stack' = [stack EXCEPT ![Len(stack)].pc = "update",
                                 ![Len(stack)].n = insts[i].n + 1]
       /\ trace' = trace \o
            <<Ev("construct", fr.pass, fr.fac, fr.site, i, NoVal, "", FALSE),
              Ev("update", fr.pass, fr.fac, fr.site, i, <<fr.props>>, "", FALSE)>>
  /\ UNCHANGED <<siteClass, directives, returned, fns, npass, nasync,
                 plainCalls>>

\* the constructor throws: the pass ends before line 174
CtorThrow ==
  /\ Depth > 0
  /\ Top.pc = "ctor"
  /\ insts' = [insts EXCEPT ![Top.inst].status = "failed"]
  /\ stack' = Pop(stack)
  /\ trace' = Append(trace,
       Ev("throw", Top.pass, Top.fac, Top.site, Top.inst, NoVal, "ctor", FALSE))
  /\ UNCHANGED <<siteClass, directives, returned, fns, cache, npass,
                 nasync, plainCalls>>

\* the instance's renderedYet after the write-back of a render pass: the
\* pass writes to the legacy site itself, not through instance.setValue
renderedYetAfterRenderSet(r) == TRUE
renderedYetAfterRender(r) == r

\* update returns v: part.setValue(v); part.commit() on the legacy site
UpdateReturn ==
  /\ Depth > 0
  /\ Top.pc = "update"
  /\ LET fr == Top
         v == Render(fr.props, fr.n) IN
       /\ trace' = trace \o WriteBack(fr.pass, fr.fac, fr.site, fr.inst, v)
       /\ insts' = [insts EXCEPT
                      ![fr.inst].renderedYet = renderedYetAfterRender(@)]
  /\ stack' = Pop(stack)
  /\ UNCHANGED <<siteClass, directives, returned, fns, cache,
                 npass, nasync, plainCalls>>

\* update throws: the pass ends inside line 179, before setValue
UpdateThrow ==
  /\ Depth > 0
  /\ Top.pc = "update"
  /\ stack' = Pop(stack)
  /\ trace' = Append(trace,
       Ev("throw", Top.pass, Top.fac, Top.site, Top.inst, NoVal, "update", FALSE))
  /\ UNCHANGED <<siteClass, directives, returned, fns, cache, insts,
                 npass, nasync, plainCalls>>

\* AsyncDirective.ddGetNode: the host node of a legacy site of class cls,
\* where nd is what the site's accessor (startNode, element,
\* committer.element) holds: "none" for no node, else the node's
\* isConnected state
ddGetNode(cls, nd) ==
  IF InstanceOf(cls, "NodePart") THEN nd
  ELSE IF InstanceOf(cls, "EventPart") THEN nd
  ELSE IF InstanceOf(cls, "BooleanAttributePart") THEN nd
  ELSE IF InstanceOf(cls, "PropertyPart") \/ InstanceOf(cls, "AttributePart")
       THEN nd
  ELSE "none"

\* AsyncDirective.shouldRender: its result
shouldRenderNoFirst(renderedYet, nd) ==
  IF nd # "none" /\ nd # "connected" THEN FALSE ELSE TRUE
shouldRenderNullDrop(renderedYet, nd) ==
  IF ~renderedYet THEN TRUE
  ELSE IF nd # "connected" THEN FALSE
  ELSE TRUE
shouldRender(renderedYet, nd) ==
  IF ~renderedYet THEN TRUE
  ELSE IF nd # "none" /\ nd # "connected" THEN FALSE
  ELSE TRUE

\* the calls AsyncDirective.setValue makes to the instance's own
\* disconnected() / reconnected() hooks: the body of setValue has none
hookCallsOnDrop(f, s, i, renderedYet, nd) ==
  IF renderedYet /\ nd = "detached"
  THEN <<Ev("disconnected", 0, f, s, i, NoVal, "hook", FALSE)>>
  ELSE <<>>
hookCalls(f, s, i, renderedYet, nd) == <<>>

\* this.ddPart.setValue(value); this.ddPart.commit() of AsyncDirective.setValue
ForwardNoCommit(f, s, i, v) ==
  <<Ev("setValue", 0, f, s, i, v, "async", FALSE)>>
Forward(f, s, i, v) ==
  <<Ev("setValue", 0, f, s, i, v, "async", FALSE),
    Ev("commit", 0, f, s, i, NoVal, "async", FALSE)>>

\* AsyncDirective.setValue(v) on the constructed instance i while the host
\* holds the site's node in state hostNode; the caller is user code: an
\* asynchronous callback between passes, or the instance's own update
AsyncSetValue(i, v, hostNode) ==
  /\ npass + nasync < MaxOps
  /\ IF Depth = 0 THEN TRUE ELSE Top.inst = i
  /\ IsAsync(insts[i].fac)
  /\ insts[i].status = "live"
  /\ LET s == insts[i].ddPart
         nd == ddGetNode(siteClass[s], hostNode)
         call == Ev("asyncSetValue", 0, insts[i].fac, s, i, v, nd,
                    ~insts[i].renderedYet)
         hooks == hookCalls(insts[i].fac, s, i, insts[i].renderedYet, nd)
     IN
       /\ insts' = [insts EXCEPT ![i].renderedYet = TRUE]
       /\ IF shouldRender(insts[i].renderedYet, nd)
          THEN trace' = trace \o <<call>> \o Forward(insts[i].fac, s, i, v)
                              \o hooks
          ELSE trace' = Append(trace, call) \o hooks
  /\ nasync' = nasync + 1
  /\ UNCHANGED <<siteClass, directives, returned, fns, cache, stack,
                 npass, plainCalls>>

Next ==
  \/ \E f \in Factories, p \in Props : CallFactory(f, p)
  \/ \E d \in 1..Len(fns), s \in Sites : RenderBegin(d, s)
  \/ CtorReturn
  \/ CtorThrow
  \/ UpdateReturn
  \/ UpdateThrow
  \/ \E i \in 1..Len(insts), v \in AsyncVals, nd \in NodeStates :
        AsyncSetValue(i, v, nd)

Spec == Init /\ [][Next]_vars

\* the registry alone: the two places that write `directives`
NextRegistry ==
  \/ \E f \in Factories, p \in Props : CallFactory(f, p)
  \/ \E a \in Props, d \in UserVals : PlainCall(a, d)

SpecRegistry == Init /\ [][NextRegistry]_vars

\* the translator alone: legacyPartToPart applied to a site of any class
InitTranslate ==
  /\ siteClass \in [Sites -> Shapes]
  /\ directives = {}
  /\ returned = {}
  /\ fns = <<>>
  /\ cache = [f \in Factories |-> [s \in Sites |-> Undefined]]
  /\ insts = <<>>
  /\ stack = <<>>
  /\ trace = <<>>
  /\ npass = 0
  /\ nasync = 0
  /\ plainCalls = <<>>

\* legacyPartToPart(s): the Part it returns or the Error it throws
Translate(s) ==
  /\ Len(trace) < MaxTranslate
  /\ LET modernPart == legacyPartToPart(s, siteClass[s]) IN
       trace' = Append(trace,
         IF modernPart.kind = "throw"
         THEN Ev("throw", 0, "", s, 0, NoVal, "Unknown part type", FALSE)
         ELSE Ev("translate", 0, "", s, 0,
                 <<modernPart.kind, modernPart.legacyPart>>, "", FALSE))
  /\ UNCHANGED <<siteClass, directives, returned, fns, cache, insts, stack,
                 npass, nasync, plainCalls>>

NextTranslate == \E s \in Sites : Translate(s)

SpecTranslate == InitTranslate /\ [][NextTranslate]_vars

\* ------------------------------------------------------------- history
Idx == 1..Len(trace)
IsOp(k, op) == trace[k].op = op
ConstructIdx(f, s) ==
  {k \in Idx : IsOp(k, "construct") /\ trace[k].fac = f /\ trace[k].site = s}
\* the events of one render pass, in order
PassEvents(p) == SelectSeq(trace, LAMBDA e : e.pass = p)
PassOps(p) == [k \in 1..Len(PassEvents(p)) |-> PassEvents(p)[k].op]
IsPrefix(a, b) == Len(a) <= Len(b) /\ \A k \in 1..Len(a) : a[k] = b[k]
\* the render event that started pass p, and the pass of event k
BeginOfPass(p) == CHOOSE j \in Idx : IsOp(j, "render") /\ trace[j].pass = p
BeginOf(k) == BeginOfPass(trace[k].pass)
\* the five kinds of legacy binding site that lit-html v1 has
RecognizedClasses ==
  {"NodePart", "EventPart", "BooleanAttributePart", "PropertyPart", "AttributePart"}
KnownSite(s) == siteClass[s] \cap RecognizedClasses # {}

\* ------------------------------------------------------------- C1
\* C1 (as stated): over any sequence of renders through one class-mode
\* factory the class is constructed at most once per legacy binding site,
\* and every render that finds a cache entry calls update on the instance
\* that was constructed first for the site.
C1_OneInstancePerSite ==
  \A f \in Factories, s \in Sites :
    /\ Cardinality(ConstructIdx(f, s)) <= 1
    /\ \A k \in Idx :
         (IsOp(k, "update") /\ trace[k].fac = f /\ trace[k].site = s
            /\ trace[BeginOf(k)].info = "hit")
         => \E c \in ConstructIdx(f, s) :
              /\ \A c2 \in ConstructIdx(f, s) : c <= c2
              /\ trace[k].inst = trace[c].inst

\* ------------------------------------------------------------- C5
\* C5 (as stated): also under re-entrant rendering, with a nested render of
\* the same site started from the class constructor or from update, at most
\* one instance is constructed per site (of one factory).
C5_ReentrantSingleConstruction ==
  \A f \in Factories, s \in Sites : Cardinality(ConstructIdx(f, s)) <= 1

\* ------------------------------------------------------------- C2
\* C2: a render of a site that the factory has not rendered before is a
\* cache miss, whatever other sites are cached; the update of a pass that
\* missed runs on an instance constructed in that pass; every construction
\* makes an instance that no other site has, the cache entries of two sites
\* never hold the same instance, and every update runs on an instance bound
\* to the site being rendered.
C2_DistinctSitesDistinctInstances ==
  /\ \A k \in Idx : IsOp(k, "render") =>
       \/ trace[k].info = "miss"
       \/ \E j \in 1..(k - 1) : /\ IsOp(j, "render")
                                /\ trace[j].fac = trace[k].fac
                                /\ trace[j].site = trace[k].site
  /\ \A k \in Idx : IsOp(k, "construct") =>
       \A j \in 1..(k - 1) : IsOp(j, "construct") => trace[j].inst # trace[k].inst
  /\ \A f \in Factories, s, t \in Sites :
       (s # t /\ cache[f][s] # Undefined /\ cache[f][t] # Undefined)
         => cache[f][s][2] # cache[f][t][2]
  /\ \A k \in Idx : IsOp(k, "update") =>
       /\ insts[trace[k].inst].ddPart = trace[k].site
       /\ insts[trace[k].inst].fac = trace[k].fac
       /\ \E c \in 1..(k - 1) :
            /\ IsOp(c, "construct")
            /\ trace[c].inst = trace[k].inst
            /\ trace[c].site = trace[k].site
            /\ trace[c].fac = trace[k].fac
            /\ trace[BeginOf(k)].info = "miss" => trace[c].pass = trace[k].pass

\* two sites of one factory each have their own instance, both updated
C2_Witness ==
  \E f \in Factories :
    /\ cache[f]["s1"] # Undefined /\ cache[f]["s2"] # Undefined
    /\ cache[f]["s1"][2] # cache[f]["s2"][2]
    /\ \A s \in Sites : \E k \in Idx :
         /\ IsOp(k, "commit") /\ trace[k].site = s /\ trace[k].fac = f
         /\ trace[k].inst = cache[f][s][2]

\* ------------------------------------------------------------- C3
FullMiss == <<"render", "translate", "construct", "update", "setValue", "commit">>
FullHit == <<"render", "update", "setValue", "commit">>
ThrowPoints ==
  { <<"render">>, <<"render", "translate">>,
    <<"render", "translate", "construct", "update">>, <<"render", "update">> }

\* C3: the events of one render pass are, in this order, the lookup, (on a
\* miss) the translation and the construction, update, setValue on the
\* legacy site the pass was called with, commit on that site; a pass that
\* throws stops there.  No update runs on an instance before its
\* construction, and the pass's setValue follows the pass's update.
C3_PassOrder ==
  /\ \A p \in 1..npass :
       LET ops == PassOps(p) IN
         \/ IsPrefix(ops, FullMiss) /\ trace[BeginOfPass(p)].info = "miss"
         \/ IsPrefix(ops, FullHit) /\ trace[BeginOfPass(p)].info = "hit"
         \/ \E pre \in ThrowPoints : ops = Append(pre, "throw")
  /\ \A k \in Idx :
       /\ trace[k].pass > 0 => trace[k].site = trace[BeginOfPass(trace[k].pass)].site
       /\ IsOp(k, "update") =>
            \E c \in 1..(k - 1) : IsOp(c, "construct") /\ trace[c].inst = trace[k].inst
       /\ (IsOp(k, "setValue") /\ trace[k].pass > 0) =>
            /\ k < Len(trace) /\ IsOp(k + 1, "commit")
            /\ trace[k + 1].pass = trace[k].pass
            /\ trace[k + 1].site = trace[k].site

\* a first pass that ran the whole miss path and a later pass on a hit
C3_Witness ==
  \E p, q \in 1..npass : PassOps(p) = FullMiss /\ PassOps(q) = FullHit

\* ------------------------------------------------------------- C4
\* the renders of site s so far, in order
RenderSeq(s) == SelectSeq(trace, LAMBDA e : e.op = "render" /\ e.site = s)
SetValueSeq(s) == SelectSeq(trace, LAMBDA e : e.op = "setValue" /\ e.site = s)
CountOp(op, s) == Cardinality({k \in Idx : IsOp(k, op) /\ trace[k].site = s})

\* the history of site s is N finished renders through the one factory f,
\* none nested, none failing, and no other write to the site
CleanRenders(f, s) ==
  /\ \A k \in Idx : trace[k].site = s =>
       /\ trace[k].fac = f
       /\ ~IsOp(k, "throw")
       /\ ~IsOp(k, "asyncSetValue")
       /\ IsOp(k, "render") => trace[k].first
  /\ \A d \in 1..Len(stack) : stack[d].site # s

\* C4: after N non-failing, non-nested renders of one site through one
\* class-mode factory, with arguments a1..aN: one construction, N updates,
\* N setValue and N commit calls on the legacy site, and the k-th setValue
\* carries the value update computed from ak on the instance in its k-th
\* update.
C4_CountsAndValues ==
  \A f \in Factories, s \in Sites :
    CleanRenders(f, s) =>
      LET rs == RenderSeq(s)
          N == Len(rs)
          svs == SetValueSeq(s) IN
        /\ Cardinality(ConstructIdx(f, s)) = (IF N = 0 THEN 0 ELSE 1)
        /\ CountOp("update", s) = N
        /\ Len(svs) = N
        /\ CountOp("commit", s) = N
        /\ \A k \in 1..N : /\ svs[k].val = Render(rs[k].val[1], k)
                           /\ svs[k].pass = rs[k].pass

\* two finished renders of one site with different arguments
C4_Witness ==
  \E f \in Factories, s \in Sites :
    /\ CleanRenders(f, s)
    /\ Len(RenderSeq(s)) = 2
    /\ RenderSeq(s)[1].val # RenderSeq(s)[2].val

\* ------------------------------------------------------------- C6
\* C6: every render of a site of an unrecognized shape throws 'Unknown part
\* type' at once and leaves nothing behind: no cache entry, no instance, no
\* update, no setValue and no commit for the site; later renders of the
\* site fail the same way.
C6_UnknownPartNoState ==
  \A s \in Sites : ~KnownSite(s) =>
    /\ \A f \in Factories : cache[f][s] = Undefined
    /\ \A i \in 1..Len(insts) : insts[i].ddPart # s
    /\ \A d \in 1..Len(stack) : stack[d].site # s
    /\ \A k \in Idx : trace[k].site = s =>
         \/ /\ IsOp(k, "render")
            /\ k < Len(trace)
            /\ IsOp(k + 1, "throw")
            /\ trace[k + 1].info = "Unknown part type"
            /\ trace[k + 1].pass = trace[k].pass
         \/ /\ IsOp(k, "throw")
            /\ k > 1
            /\ IsOp(k - 1, "render")
            /\ trace[k - 1].pass = trace[k].pass

\* the same unknown site rendered twice, both renders failed
C6_Witness ==
  \E s \in Sites :
    /\ ~KnownSite(s)
    /\ Cardinality({k \in Idx : IsOp(k, "throw") /\ trace[k].site = s
                       /\ trace[k].info = "Unknown part type"}) = 2

\* ------------------------------------------------------------- C7
\* every object the model has: the user's values and the class-mode
\* directive functions
AllObjects == UserVals \cup {FnObj(i) : i \in 1..(MaxFns + 1)}

\* C7: isDirective(v) holds only of a function that a factory wrapped by
\* directive() has returned (and so tagged); a function that was never
\* tagged is not a directive whatever it does, a tagged value that is not a
\* function is not a directive, and a tagged object stays tagged.
C7_OnlyTaggedFunctions ==
  /\ \A v \in AllObjects :
       isDirective(directives, v) => (Typeof(v) = "function" /\ v \in returned)
  /\ \A v \in AllObjects : Typeof(v) # "function" => ~isDirective(directives, v)
  /\ returned \subseteq directives

\* one of two like functions is tagged and the other is not, and an object
\* that is not a function is tagged
C7_Witness ==
  /\ isDirective(directives, <<"function", 1>>)
  /\ <<"function", 2>> \notin directives
  /\ ~isDirective(directives, <<"function", 2>>)
  /\ <<"object", 3>> \in directives
  /\ ~isDirective(directives, <<"object", 3>>)

\* ------------------------------------------------------------- C8
\* C8: every function that a factory made by directive() has returned is
\* recognized by isDirective: the function the user's factory returned in
\* plain-function mode, the per-call directive function in class mode.
C8_ReturnedFunctionsAreDirectives ==
  /\ \A v \in returned : Typeof(v) = "function" => isDirective(directives, v)
  /\ \A i \in 1..Len(fns) : isDirective(directives, FnObj(i))
  /\ \A k \in 1..Len(plainCalls) :
       Typeof(plainCalls[k].ret) = "function"
         => isDirective(directives, plainCalls[k].ret)

\* a plain-mode function and a class-mode directive function were returned
C8_Witness ==
  /\ \E k \in 1..Len(plainCalls) : Typeof(plainCalls[k].ret) = "function"
  /\ Len(fns) > 0

\* ------------------------------------------------------------- C9, C10
\* the k-th event is a setValue call on an AsyncDirective instance, and
\* the first such call on that instance
AsyncCall(k) == IsOp(k, "asyncSetValue")
FirstCall(k) ==
  /\ AsyncCall(k)
  /\ \A j \in 1..(k - 1) : AsyncCall(j) => trace[j].inst # trace[k].inst
\* the call forwarded setValue(v) then commit to the instance's legacy site
Forwarded(k) ==
  /\ k + 2 <= Len(trace)
  /\ IsOp(k + 1, "setValue") /\ trace[k + 1].info = "async"
  /\ trace[k + 1].site = insts[trace[k].inst].ddPart
  /\ trace[k + 1].val = trace[k].val
  /\ IsOp(k + 2, "commit") /\ trace[k + 2].info = "async"
  /\ trace[k + 2].site = insts[trace[k].inst].ddPart
\* the call reached the legacy site with nothing
Dropped(k) == k = Len(trace) \/ trace[k + 1].info # "async"

\* C9: the first setValue call on an AsyncDirective instance forwards
\* setValue then commit to the legacy site whatever the state of the host
\* node, and the instance is rendered from then on.
C9_FirstSetValueForwards ==
  \A k \in Idx : FirstCall(k) =>
    /\ Forwarded(k)
    /\ insts[trace[k].inst].renderedYet

\* a first call made while the host node is detached
C9_Witness ==
  \E k \in Idx : FirstCall(k) /\ trace[k].info = "detached" /\ Forwarded(k)

\* C10: a setValue call after the instance's first forwards setValue and
\* commit iff the host node cannot be resolved or is attached at the call;
\* a call made while the node is detached reaches the legacy site with
\* nothing, and a call after reattachment forwards again.
C10_LaterSetValueGated ==
  \A k \in Idx : (AsyncCall(k) /\ ~FirstCall(k)) =>
    /\ trace[k].info \in {"none", "connected"} => Forwarded(k)
    /\ trace[k].info = "detached" => Dropped(k)
    /\ Forwarded(k) \/ Dropped(k)

\* on one instance: a call dropped while detached, then a call forwarded
\* after the node is attached again
C10_Witness ==
  \E k, m \in Idx :
    /\ k < m
    /\ AsyncCall(k) /\ ~FirstCall(k) /\ AsyncCall(m)
    /\ trace[k].inst = trace[m].inst
    /\ trace[k].info = "detached" /\ Dropped(k)
    /\ trace[m].info = "connected" /\ Forwarded(m)

\* ------------------------------------------------------------- C11
\* calls of the hook h that the core has made on instance i
HookCount(i, h) == Cardinality({k \in Idx : IsOp(k, h) /\ trace[k].inst = i})

EntriesOf(s) == {f \in Factories : cache[f][s] # Undefined}
\* the last construction of factory f for site s
LastConstruct(f, s) ==
  CHOOSE c \in ConstructIdx(f, s) : \A c2 \in ConstructIdx(f, s) : c2 <= c

\* C12 (as stated): a legacy binding site has at most one cache entry,
\* counted across all class-mode factories that have rendered it.
C12_OneEntryAcrossFactories ==
  \A s \in Sites : Cardinality(EntriesOf(s)) <= 1

\* C12 (amended): each factory's cache holds at most one entry per legacy
\* binding site, so a site has one entry for each factory that has completed
\* a construction for it and none for any other factory; the entry of
\* factory f for site s is the Part wrapping s and the instance that f
\* constructed last for s.
C12_OneEntryPerSitePerFactory ==
  \A s \in Sites :
    /\ EntriesOf(s) = {f \in Factories : ConstructIdx(f, s) # {}}
    /\ \A f \in EntriesOf(s) :
         /\ cache[f][s][1].legacyPart = s
         /\ cache[f][s][2] = trace[LastConstruct(f, s)].inst
         /\ insts[cache[f][s][2]].fac = f
         /\ insts[cache[f][s][2]].ddPart = s

\* one site rendered to the end through both factories: two entries
C12_Witness ==
  \E s \in Sites :
    /\ EntriesOf(s) = Factories
    /\ cache["fA"][s][2] # cache["fB"][s][2]
    /\ \A f \in Factories : \E k \in Idx :
         IsOp(k, "commit") /\ trace[k].fac = f /\ trace[k].site = s

\* ------------------------------------------------------------- C13
\* the type tests in the order the contract gives them, and the kind of
\* Part each one selects
TestOrder ==
  <<"NodePart", "EventPart", "BooleanAttributePart", "PropertyPart",
    "AttributePart">>
KindOfTest ==
  [NodePart |-> "ChildPart", EventPart |-> "EventPart",
   BooleanAttributePart |-> "BooleanAttributePart",
   PropertyPart |-> "AttributePart", AttributePart |-> "AttributePart"]
Matching(shape) == {t \in 1..Len(TestOrder) : TestOrder[t] \in shape}
FirstMatching(shape) ==
  CHOOSE t \in Matching(shape) : \A u \in Matching(shape) : t <= u

\* C13: a translation returns the Part of the first test, in the order
\* child, event, boolean-attribute, property-or-attribute, that the site
\* passes (property and attribute sites both give the attribute Part); a
\* site that passes none gets the 'Unknown part type' error and no Part.
C13_ClassifiedInOrder ==
  \A k \in Idx :
    LET shape == siteClass[trace[k].site] IN
      IF Matching(shape) = {}
      THEN /\ IsOp(k, "throw")
           /\ trace[k].info = "Unknown part type"
           /\ trace[k].val = NoVal
      ELSE /\ IsOp(k, "translate")
           /\ trace[k].val[1] = KindOfTest[TestOrder[FirstMatching(shape)]]

\* a site that passes the child test and the event test was translated to
\* a child Part, and a site that passes no test was refused
C13_Witness ==
  /\ \E k \in Idx : /\ IsOp(k, "translate")
                     /\ {"NodePart", "EventPart"} \subseteq siteClass[trace[k].site]
                     /\ trace[k].val[1] = "ChildPart"
  /\ \E k \in Idx : /\ IsOp(k, "throw")
                     /\ siteClass[trace[k].site] = {"ElementPart"}

C15_PlainModeNoCache ==
  \A k \in 1..Len(plainCalls) :
    /\ plainCalls[k].userCalls = <<plainCalls[k].args>>
    /\ plainCalls[k].ret = plainCalls[k].userRet
    /\ plainCalls[k].ret \in directives

\* two invocations with the same arguments for which the user's factory
\* returned different values
C15_Witness ==
  /\ Len(plainCalls) = 2
  /\ plainCalls[1].args = plainCalls[2].args
  /\ plainCalls[1].userRet # plainCalls[2].userRet
  /\ plainCalls[1].ret # plainCalls[2].ret

\* ------------------------------------------------------------- C16
\* finished write-backs of render passes on instance i
RenderCommits(i) ==
  {k \in Idx : IsOp(k, "commit") /\ trace[k].info = "render" /\ trace[k].inst = i}

\* C16: an instance is in the rendered state iff its own setValue has been
\* called, however many render passes have updated it; so the first
\* setValue call finds it never-rendered and forwards setValue and commit,
\* whatever the state of the host node.
C16_RendersKeepNeverRendered ==
  /\ \A i \in 1..Len(insts) :
       insts[i].renderedYet <=> \E k \in Idx : AsyncCall(k) /\ trace[k].inst = i
  /\ \A k \in Idx : AsyncCall(k) =>
       (trace[k].first <=> FirstCall(k))
  /\ \A k \in Idx : (AsyncCall(k) /\ trace[k].first) => Forwarded(k)

\* two finished renders of a site, then the first setValue of the instance
\* while the host node is detached: forwarded
C16_Witness ==
  \E k \in Idx :
    /\ FirstCall(k) /\ trace[k].info = "detached" /\ Forwarded(k)
    /\ Cardinality({c \in RenderCommits(trace[k].inst) : c < k}) = 2

\* ------------------------------------------------------------- C17
\* pass p is over and did not end by an error
PassDone(p) ==
  /\ \A d \in 1..Len(stack) : stack[d].pass # p
  /\ \A k \in Idx : IsOp(k, "throw") => trace[k].pass # p
\* pass p called update and then wrote the value back to its site
WroteBack(p) ==
  \E u, w \in Idx :
    /\ u < w /\ w < Len(trace)
    /\ IsOp(u, "update") /\ trace[u].pass = p
    /\ IsOp(w, "setValue") /\ trace[w].pass = p /\ trace[w].info = "render"
    /\ trace[w].site = trace[BeginOfPass(p)].site
    /\ trace[w].inst = trace[u].inst
    /\ IsOp(w + 1, "commit") /\ trace[w + 1].pass = p
    /\ trace[w + 1].site = trace[w].site

\* C17: a render pass of an AsyncDirective class that ends without an error
\* has called update and then setValue and commit on the legacy site,
\* whatever the state of the host node and whatever setValue calls of the
\* instance were dropped before: the gate is not on the render path.
C17_RenderNotGated ==
  \A p \in 1..npass :
    (IsAsync(trace[BeginOfPass(p)].fac) /\ PassDone(p)) => WroteBack(p)

\* a render pass wrote back on an instance that is in the rendered state
\* and had a setValue call dropped, while detached, before the pass
C17_Witness ==
  \E p \in 1..npass : \E k \in Idx :
    /\ PassDone(p) /\ WroteBack(p)
    /\ k < BeginOfPass(p)
    /\ AsyncCall(k) /\ ~FirstCall(k) /\ trace[k].info = "detached" /\ Dropped(k)
    /\ \E u \in Idx : IsOp(u, "update") /\ trace[u].pass = p
                        /\ trace[u].inst = trace[k].inst

\* ------------------------------------------------------------- C18
\* the k-th event is the error that ended a pass in user code
ThrowIn(k, where) == IsOp(k, "throw") /\ trace[k].info = where
SameKey(j, k) == trace[j].fac = trace[k].fac /\ trace[j].site = trace[k].site

\* C18 (as stated): when update throws in a pass, the pass calls neither
\* setValue nor commit, the cache entry of the site keeps the instance
\* whose update threw, and later renders of the site through the factory
\* hit the cache, update that instance and construct nothing.  When the
\* constructor throws in the first render of a site, the pass stores no
\* entry and the next render of the site misses and constructs again.
C18_ThrowLeavesCacheAsIs ==
  /\ \A k \in Idx : ThrowIn(k, "update") =>
       /\ \A j \in Idx : (IsOp(j, "setValue") \/ IsOp(j, "commit"))
                             => trace[j].pass # trace[k].pass
       /\ cache[trace[k].fac][trace[k].site] # Undefined
       /\ cache[trace[k].fac][trace[k].site][2] = trace[k].inst
       /\ \A j \in (k + 1)..Len(trace) : SameKey(j, k) =>
            /\ ~IsOp(j, "construct")
            /\ IsOp(j, "render") => trace[j].info = "hit"
            /\ IsOp(j, "update") => trace[j].inst = trace[k].inst
  /\ \A k \in Idx :
       (ThrowIn(k, "ctor")
          /\ \A j \in 1..(BeginOf(k) - 1) : IsOp(j, "render") => ~SameKey(j, k))
       => /\ \A j \in Idx : IsOp(j, "construct") => trace[j].pass # trace[k].pass
          /\ \A j \in (k + 1)..Len(trace) :
               (IsOp(j, "render") /\ SameKey(j, k)
                  /\ \A h \in (k + 1)..(j - 1) : IsOp(h, "render") => ~SameKey(h, k))
               => trace[j].info = "miss"

\* ------------------------------------------------------------- C19
\* C19: the caches of two factories do not meet.  A render through factory
\* f hits only if f itself has constructed an instance for the site; the
\* instance that f holds for a site was constructed by f for that site and
\* by no other factory; between two updates of f on a site with no
\* construction by f in between, the instance is the same whatever other
\* factories rendered meanwhile; and a site rendered through two factories
\* has one instance in each.
C19_CachesIndependent ==
  /\ \A k \in Idx : (IsOp(k, "render") /\ trace[k].info = "hit") =>
       \E c \in 1..(k - 1) : IsOp(c, "construct") /\ SameKey(c, k)
  /\ \A f \in Factories, s \in Sites : cache[f][s] # Undefined =>
       /\ \E c \in ConstructIdx(f, s) : trace[c].inst = cache[f][s][2]
       /\ \A c \in Idx : (IsOp(c, "construct") /\ trace[c].inst = cache[f][s][2])
                             => trace[c].fac = f
  /\ \A j, k \in Idx :
       (j < k /\ IsOp(j, "update") /\ IsOp(k, "update") /\ SameKey(j, k)
          /\ \A c \in (j + 1)..(k - 1) : ~(IsOp(c, "construct") /\ SameKey(c, k)))
       => trace[j].inst = trace[k].inst
  /\ \A s \in Sites : EntriesOf(s) = Factories =>
       cache["fA"][s][2] # cache["fB"][s][2]

\* factory f constructed its instance for a site, then another factory
\* rendered the site to the end with an instance of its own, and f still
\* holds the instance it constructed
C19_Witness ==
  \E f, g \in Factories, s \in Sites : \E a, b \in Idx :
    /\ f # g /\ a < b
    /\ IsOp(a, "construct") /\ trace[a].fac = f /\ trace[a].site = s
    /\ IsOp(b, "commit") /\ trace[b].fac = g /\ trace[b].site = s
    /\ trace[b].info = "render"
    /\ cache[f][s] # Undefined /\ cache[f][s][2] = trace[a].inst
    /\ cache[g][s] # Undefined /\ cache[g][s][2] = trace[b].inst
    /\ trace[a].inst # trace[b].inst

\* ------------------------------------------------------------- C20
\* C20: every setValue the core issues on a legacy site, in a render pass
\* or from AsyncDirective.setValue, is followed at once by the commit of the
\* same origin on the same site, and every commit follows such a setValue;
\* a setValue issued between the update of a pass and the write-back of that
\* pass (update calling the instance's setValue) has its commit before the
\* pass's own setValue.
C20_SetValueThenCommit ==
  /\ \A k \in Idx : IsOp(k, "setValue") =>
       /\ k < Len(trace)
       /\ IsOp(k + 1, "commit")
       /\ trace[k + 1].site = trace[k].site
       /\ trace[k + 1].info = trace[k].info
       /\ trace[k + 1].pass = trace[k].pass
       /\ trace[k + 1].inst = trace[k].inst
  /\ \A k \in Idx : IsOp(k, "commit") => (k > 1 /\ IsOp(k - 1, "setValue"))
  /\ \A u, w \in Idx :
       (u < w /\ IsOp(u, "update") /\ IsOp(w, "setValue")
          /\ trace[w].pass = trace[u].pass /\ trace[w].info = "render")
       => \A k \in (u + 1)..(w - 1) : IsOp(k, "setValue") =>
            (k + 1 < w /\ IsOp(k + 1, "commit"))

\* update called the instance's setValue, which was forwarded; the pass
\* then wrote its own value back
C20_Witness ==
  \E u, k, w \in Idx :
    /\ u < k /\ k + 2 < w /\ w < Len(trace)
    /\ IsOp(u, "update") /\ AsyncCall(k) /\ trace[k].inst = trace[u].inst
    /\ \A h \in (u + 1)..(k - 1) : AsyncCall(h)
    /\ Forwarded(k)
    /\ IsOp(w, "setValue") /\ trace[w].info = "render"
    /\ trace[w].pass = trace[u].pass /\ trace[w].site = trace[k].site
    /\ IsOp(w + 1, "commit")

====
